---- MODULE Spec2Model ----
(***************************************************************************)
(* Model of the command-line contact manager SE_HW_1_2.py: the Field      *)
(* validators, Record, AddressBook (with get_upcoming_birthdays), the     *)
(* decorated command handlers, the command loop of main and the pickle    *)
(* persistence.                                                           *)
(*                                                                        *)
(* Strings of the program are sequences of one-character strings, so      *)
(* that str.isdigit, len, str.lower, strptime and strftime are computed   *)
(* character by character.  A calendar date is a record [y, m, d]; an     *)
(* optional value (Record.birthday, the file on disk) is a sequence of    *)
(* length 0 (None / no file) or 1.  A Python call that may raise is       *)
(* modelled by a result record whose field exc names the exception        *)
(* ("" when the call returned).                                           *)
(***************************************************************************)
EXTENDS Integers, Sequences, FiniteSets, TLC

VARIABLES
    data,      \* AddressBook.data: the records, in dict insertion order
    disk,      \* addressbook.pkl: <<>> when absent, <<blob>> when written
    pc,        \* position of main: "start", "running", "done", "crashed"
    reply,     \* what the last operation printed or raised
    today,     \* datetime.today().date() read by the last scheduler call
    upcoming   \* result of the last AddressBook.get_upcoming_birthdays call

vars == <<data, disk, pc, reply, today, upcoming>>

(***************************************************************************)
(* Characters and strings                                                 *)
(***************************************************************************)
DigitChars == <<"0", "1", "2", "3", "4", "5", "6", "7", "8", "9">>

UpperChars == <<"A", "B", "C", "D", "E", "F", "G", "H", "I", "J", "K", "L", "M",
                "N", "O", "P", "Q", "R", "S", "T", "U", "V", "W", "X", "Y", "Z">>

LowerChars == <<"a", "b", "c", "d", "e", "f", "g", "h", "i", "j", "k", "l", "m",
                "n", "o", "p", "q", "r", "s", "t", "u", "v", "w", "x", "y", "z">>

Range(s) == {s[i] : i \in DOMAIN s}

DigitSet == Range(DigitChars)

\* the character U+00B2, SUPERSCRIPT TWO: str.isdigit() is True for it, the
\* pattern \d and int() do not take it
Sup2 == "^2"

\* the characters str.isdigit() accepts: the decimal digits and the digits
\* of Unicode's Numeric_Type=Digit, such as the superscript digits
IsdigitSet == DigitSet \cup {Sup2}

UpperSet == Range(UpperChars)

\* the lower-case letter of every upper-case letter
ToLower ==
    [c \in UpperSet |-> LowerChars[CHOOSE i \in DOMAIN UpperChars : UpperChars[i] = c]]

\* the value of every digit
ToDigit ==
    [c \in DigitSet |-> (CHOOSE i \in DOMAIN DigitChars : DigitChars[i] = c) - 1]

IsDigitChar(c) == c \in IsdigitSet

\* a non-empty run of decimal digits, what \d+ matches
IsDecimal(s) == Len(s) > 0 /\ \A i \in DOMAIN s : s[i] \in DigitSet

\* str.isdigit(): non-empty and every character is a digit
isdigit(s) == Len(s) > 0 /\ \A i \in DOMAIN s : IsDigitChar(s[i])

LowerChar(c) == IF c \in UpperSet THEN ToLower[c] ELSE c

\* str.lower()
lower(s) == [i \in DOMAIN s |-> LowerChar(s[i])]

DigitVal(c) == ToDigit[c]

RECURSIVE NumVal(_)
\* int() of a string of digits
NumVal(s) ==
    IF Len(s) = 0 THEN 0
    ELSE 10 * NumVal(SubSeq(s, 1, Len(s) - 1)) + DigitVal(s[Len(s)])

RECURSIVE SplitOn(_, _)
\* the fields of s between the occurrences of the literal character sep
SplitOn(s, sep) ==
    IF \A i \in DOMAIN s : s[i] # sep THEN <<s>>
    ELSE LET k == CHOOSE i \in DOMAIN s :
                      s[i] = sep /\ \A j \in 1..(i - 1) : s[j] # sep
         IN  <<SubSeq(s, 1, k - 1)>> \o SplitOn(SubSeq(s, k + 1, Len(s)), sep)

\* two decimal digits, zero padded (%d, %m)
Pad2(n) == <<DigitChars[((n \div 10) % 10) + 1], DigitChars[(n % 10) + 1]>>

\* four decimal digits (%Y)
Pad4(n) == <<DigitChars[((n \div 1000) % 10) + 1], DigitChars[((n \div 100) % 10) + 1]>>
           \o Pad2(n % 100)

(***************************************************************************)
(* datetime.date                                                          *)
(***************************************************************************)
IsLeap(y) == y % 4 = 0 /\ (y % 100 # 0 \/ y % 400 = 0)

DaysInMonth(y, m) ==
    IF m = 2 THEN (IF IsLeap(y) THEN 29 ELSE 28)
    ELSE IF m \in {4, 6, 9, 11} THEN 30 ELSE 31

\* the arguments datetime(y, m, d) accepts; any other raises ValueError
DateOk(y, m, d) ==
    /\ y \in 1..9999
    /\ m \in 1..12
    /\ d \in 1..DaysInMonth(y, m)

MkDate(y, m, d) == [y |-> y, m |-> m, d |-> d]

RECURSIVE DaysBeforeMonth(_, _)
DaysBeforeMonth(y, m) ==
    IF m <= 1 THEN 0 ELSE DaysBeforeMonth(y, m - 1) + DaysInMonth(y, m - 1)

\* date.toordinal(): 1 January of year 1 is day 1
Ord(dt) ==
    LET p == dt.y - 1
    IN  p * 365 + (p \div 4) - (p \div 100) + (p \div 400)
        + DaysBeforeMonth(dt.y, dt.m) + dt.d

\* date.weekday(): Monday is 0, Saturday 5, Sunday 6
weekday(dt) == (Ord(dt) + 6) % 7

\* date.__lt__
DateLess(a, b) ==
    \/ a.y < b.y
    \/ a.y = b.y /\ a.m < b.m
    \/ a.y = b.y /\ a.m = b.m /\ a.d < b.d

\* (a - b).days
DaysBetween(a, b) == Ord(a) - Ord(b)

\* date.strftime("%d.%m.%Y")
strftime(dt) == Pad2(dt.d) \o <<".">> \o Pad2(dt.m) \o <<".">> \o Pad4(dt.y)

\* datetime.strptime(s, "%d.%m.%Y").date(): exc = "ValueError" when s does
\* not match the format or names no calendar date
strptime(s) ==
    LET parts == SplitOn(s, ".")
        shape == /\ Len(parts) = 3
                 /\ \A i \in 1..3 : IsDecimal(parts[i])
                 /\ Len(parts[1]) \in 1..2
                 /\ Len(parts[2]) \in 1..2
                 /\ Len(parts[3]) = 4
    IN  IF shape /\ DateOk(NumVal(parts[3]), NumVal(parts[2]), NumVal(parts[1]))
        THEN [exc |-> "",
              val |-> MkDate(NumVal(parts[3]), NumVal(parts[2]), NumVal(parts[1]))]
        ELSE [exc |-> "ValueError", val |-> MkDate(0, 0, 0)]

(***************************************************************************)
(* Field, Name, Phone, Birthday                                           *)
(***************************************************************************)
None == <<>>

Some(v) == <<v>>

\* Name.__init__: an empty name raises ValueError
Name(name) ==
    IF Len(name) = 0 THEN [exc |-> "ValueError", val |-> name]
    ELSE [exc |-> "", val |-> name]

\* Phone.__init__: anything but 10 digits raises ValueError
Phone(phone) ==
    IF ~isdigit(phone) \/ Len(phone) # 10
    THEN [exc |-> "ValueError", val |-> phone]
    ELSE [exc |-> "", val |-> phone]

\* Birthday.__init__: strptime's ValueError is raised again as ValueError
Birthday(value) == strptime(value)

(***************************************************************************)
(* Record                                                                 *)
(***************************************************************************)
\* Record.__init__
Record(name) ==
    LET n == Name(name)
    IN  [exc |-> n.exc,
         rec |-> [name |-> n.val, phones |-> <<>>, birthday |-> None]]

\* Record.add_birthday
Record_add_birthday(rec, birthday) ==
    LET b == Birthday(birthday)
    IN  IF b.exc # "" THEN [exc |-> b.exc, rec |-> rec]
        ELSE [exc |-> "", rec |-> [rec EXCEPT !.birthday = Some(b.val)]]

\* Record.add_phone
Record_add_phone(rec, phone) ==
    LET ph == Phone(phone)
    IN  IF ph.exc # "" THEN [exc |-> ph.exc, rec |-> rec]
        ELSE [exc |-> "", rec |-> [rec EXCEPT !.phones = Append(@, ph.val)]]

RemoveAt(s, i) == SubSeq(s, 1, i - 1) \o SubSeq(s, i + 1, Len(s))

RECURSIVE RemoveLoop(_, _, _)
\* the for loop of remove_phone: the list iterator's index advances after
\* each element, also when that element was just removed from the list
RemoveLoop(phones, i, phone) ==
    IF i > Len(phones) THEN phones
    ELSE IF phones[i] = phone
         THEN RemoveLoop(RemoveAt(phones, i), i + 1, phone)
         ELSE RemoveLoop(phones, i + 1, phone)

\* Record.remove_phone
Record_remove_phone(rec, phone) ==
    [exc |-> "", rec |-> [rec EXCEPT !.phones = RemoveLoop(@, 1, phone)]]

\* Record.edit_phone
Record_edit_phone(rec, old_phone, new_phone) ==
    LET phone_exists == ~\E i \in DOMAIN rec.phones : rec.phones[i] = old_phone
    IN  IF phone_exists THEN [exc |-> "ValueError", rec |-> rec]
        ELSE IF ~isdigit(new_phone) \/ Len(new_phone) # 10
        THEN [exc |-> "ValueError", rec |-> rec]
        ELSE [exc |-> "",
              rec |-> [rec EXCEPT !.phones =
                          [i \in DOMAIN @ |->
                              IF @[i] = old_phone THEN new_phone ELSE @[i]]]]

(***************************************************************************)
(* AddressBook                                                            *)
(***************************************************************************)
\* the position of key name in the dict, 0 when it is not a key
IndexOf(book, name) ==
    IF \E i \in DOMAIN book : book[i].name = name
    THEN CHOOSE i \in DOMAIN book : book[i].name = name
    ELSE 0

\* AddressBook.add_record: self.data[name] = record; an existing key keeps
\* its place in the dict and gets the new record
add_record(book, rec) ==
    LET i == IndexOf(book, rec.name)
    IN  IF i = 0 THEN Append(book, rec) ELSE [book EXCEPT ![i] = rec]

\* AddressBook.find: self.data.get(name), None when absent
find(book, name) ==
    LET i == IndexOf(book, name)
    IN  IF i = 0 THEN None ELSE Some(book[i])

\* AddressBook.delete
delete(book, name) ==
    LET i == IndexOf(book, name)
    IN  IF i = 0 THEN book ELSE RemoveAt(book, i)

\* the mutant of BirthdayThisYear: a day past the end of the month is
\* replaced by the month's last day
BirthdayThisYear_Clamp(t, b) ==
    IF DateOk(t.y, b.m, b.d) THEN [exc |-> "", val |-> MkDate(t.y, b.m, b.d)]
    ELSE [exc |-> "", val |-> MkDate(t.y, b.m, DaysInMonth(t.y, b.m))]

\* datetime(today.year, birthday.month, birthday.day).date()
BirthdayThisYear(t, b) ==
    IF DateOk(t.y, b.m, b.d) THEN [exc |-> "", val |-> MkDate(t.y, b.m, b.d)]
    ELSE [exc |-> "ValueError", val |-> MkDate(0, 0, 0)]

\* the mutant of RollForward: a Sunday is moved by two days as a Saturday is
RollForward_SundayTwo(dt) ==
    IF weekday(dt) \in {5, 6}
    THEN IF DateOk(dt.y, dt.m, dt.d + 2)
         THEN [exc |-> "", val |-> MkDate(dt.y, dt.m, dt.d + 2)]
         ELSE [exc |-> "ValueError", val |-> MkDate(0, 0, 0)]
    ELSE [exc |-> "", val |-> dt]

\* the weekend adjustment: datetime(year, month, day + 2) for a Saturday,
\* datetime(year, month, day + 1) for a Sunday
RollForward(dt) ==
    IF weekday(dt) = 5
    THEN IF DateOk(dt.y, dt.m, dt.d + 2)
         THEN [exc |-> "", val |-> MkDate(dt.y, dt.m, dt.d + 2)]
         ELSE [exc |-> "ValueError", val |-> MkDate(0, 0, 0)]
    ELSE IF weekday(dt) = 6
    THEN IF DateOk(dt.y, dt.m, dt.d + 1)
         THEN [exc |-> "", val |-> MkDate(dt.y, dt.m, dt.d + 1)]
         ELSE [exc |-> "ValueError", val |-> MkDate(0, 0, 0)]
    ELSE [exc |-> "", val |-> dt]

RECURSIVE UpcomingLoop(_, _, _, _)
\* the for loop of get_upcoming_birthdays from position i on, acc being
\* upcoming_birthdays so far
UpcomingLoop(book, i, t, acc) ==
    IF i > Len(book) THEN [exc |-> "", val |-> acc]
    ELSE LET user == book[i]
         IN  IF user.birthday = None THEN UpcomingLoop(book, i + 1, t, acc)
             ELSE LET c == BirthdayThisYear(t, user.birthday[1])
                  IN  IF c.exc # "" THEN [exc |-> c.exc, val |-> <<>>]
                      ELSE IF DateLess(c.val, t)
                      THEN UpcomingLoop(book, i + 1, t, acc)
                      ELSE IF DaysBetween(c.val, t) < 7
                      THEN LET r == RollForward(c.val)
                           IN  IF r.exc # "" THEN [exc |-> r.exc, val |-> <<>>]
                               ELSE UpcomingLoop(book, i + 1, t,
                                        Append(acc,
                                            [name |-> user.name,
                                             congratulation_date |-> strftime(r.val)]))
                      ELSE UpcomingLoop(book, i + 1, t, acc)

\* AddressBook.get_upcoming_birthdays, t being datetime.today().date()
get_upcoming_birthdays(book, t) == UpcomingLoop(book, 1, t, <<>>)

(***************************************************************************)
(* Persistence: save_data / load_data                                     *)
(***************************************************************************)
\* how pickle writes a date: year high byte, year low byte, month, day
DateBytes(dt) == <<dt.y \div 256, dt.y % 256, dt.m, dt.d>>

DateFromBytes(b) == MkDate(b[1] * 256 + b[2], b[3], b[4])

\* the mutant of pickle_dump: the birthday attribute is not written
pickle_dump_NoBirthday(book) ==
    [i \in DOMAIN book |->
        [name |-> book[i].name, phones |-> book[i].phones, birthday |-> None]]

\* pickle.dump(book, f): the blob holds, per record in dict order, the
\* name, the phone values and the birthday's date bytes (None when unset)
pickle_dump(book) ==
    [i \in DOMAIN book |->
        [name |-> book[i].name,
         phones |-> book[i].phones,
         birthday |-> IF book[i].birthday = None THEN None
                      ELSE Some(DateBytes(book[i].birthday[1]))]]

\* pickle.load(f)
pickle_load(blob) ==
    [i \in DOMAIN blob |->
        [name |-> blob[i].name,
         phones |-> blob[i].phones,
         birthday |-> IF blob[i].birthday = None THEN None
                      ELSE Some(DateFromBytes(blob[i].birthday[1]))]]

\* save_data: the file after the call
save_data(book) == Some(pickle_dump(book))

\* load_data: FileNotFoundError gives a new, empty AddressBook
load_data(file) == IF file = None THEN <<>> ELSE pickle_load(file[1])

(***************************************************************************)
(* Command handlers                                                       *)
(***************************************************************************)
\* a printed or returned message; exc names an exception that escaped
Msg(kind) == [kind |-> kind, exc |-> "", entries |-> <<>>]

Raised(exc) == [kind |-> "Traceback", exc |-> exc, entries |-> <<>>]

\* input_error: the message returned for an exception the handler raised
input_error(exc) ==
    IF exc = "KeyError" THEN Msg("This command can not be executed.")
    ELSE IF exc = "ValueError" THEN Msg("Give me name and phone please.")
    ELSE IF exc = "IndexError" THEN Msg("There is no such information.")
    ELSE Msg("Error")

\* add_birthday(args, book): the book after the call and the message
add_birthday(args, book) ==
    IF Len(args) # 2 THEN [book |-> book, reply |-> input_error("ValueError")]
    ELSE LET name == args[1]
             i == IndexOf(book, name)
         IN  IF i # 0
             THEN LET r == Record_add_birthday(book[i], args[2])
                  IN  IF r.exc = "ValueError"
                      THEN [book |-> book,
                            reply |-> Msg("Error: Invalid date format. Use DD.MM.YYYY")]
                      ELSE [book |-> [book EXCEPT ![i] = r.rec],
                            reply |-> [Msg("Birthday added") EXCEPT !.entries = <<name>>]]
             ELSE [book |-> book,
                   reply |-> [Msg("Contact not found") EXCEPT !.entries = <<name>>]]

\* show_birthday(args, book)
show_birthday(args, book) ==
    IF Len(args) = 0 THEN input_error("IndexError")
    ELSE LET name == args[1]
             record == find(book, name)
         IN  IF record # None /\ record[1].birthday # None
             THEN [Msg("birthday") EXCEPT !.entries = <<name>>]
             ELSE IF record # None
             THEN [Msg("does not have a birthday specified") EXCEPT !.entries = <<name>>]
             ELSE [Msg("Contact not found") EXCEPT !.entries = <<name>>]

\* birthdays(args, book): the return inside the for loop ends the handler
\* at the first element of upcoming_birthdays
birthdays(got) ==
    IF got.exc # "" THEN input_error(got.exc)
    ELSE IF Len(got.val) > 0
    THEN [Msg("The congratulation date") EXCEPT !.entries = <<got.val[1]>>]
    ELSE Msg("No upcoming birthdays.")

\* parse_input: user_input.split() is the sequence of tokens given; an
\* empty sequence cannot be unpacked into cmd, *args (ValueError)
parse_input(tokens) ==
    IF Len(tokens) = 0 THEN [exc |-> "ValueError", cmd |-> <<>>, args |-> <<>>]
    ELSE [exc |-> "", cmd |-> lower(tokens[1]), args |-> Tail(tokens)]

W_add == <<"a", "d", "d">>
W_change == <<"c", "h", "a", "n", "g", "e">>
W_phone == <<"p", "h", "o", "n", "e">>
W_all == <<"a", "l", "l">>
W_add_birthday == <<"a", "d", "d", "-", "b", "i", "r", "t", "h", "d", "a", "y">>
W_show_birthday == <<"s", "h", "o", "w", "-", "b", "i", "r", "t", "h", "d", "a", "y">>
W_birthdays == <<"b", "i", "r", "t", "h", "d", "a", "y", "s">>
W_hello == <<"h", "e", "l", "l", "o">>
W_close == <<"c", "l", "o", "s", "e">>
W_exit == <<"e", "x", "i", "t">>

(***************************************************************************)
(* The command loop of main                                               *)
(***************************************************************************)
NoDate == MkDate(0, 0, 0)

NotCalled == [exc |-> "not called", val |-> <<>>]

\* an exception nobody catches ends main before save_data
Crash(exc) ==
    /\ pc' = "crashed"
    /\ reply' = Raised(exc)
    /\ today' = NoDate
    /\ upcoming' = NotCalled
    /\ UNCHANGED <<data, disk>>

\* a command that prints msg and leaves the book as it is
Say(msg) ==
    /\ reply' = msg
    /\ today' = NoDate
    /\ upcoming' = NotCalled
    /\ UNCHANGED <<data, disk, pc>>

\* the command of a line that parse_input accepts
Command(line) == parse_input(line).cmd

Args(line) == parse_input(line).args

Reads(line, verbs) ==
    /\ pc = "running"
    /\ parse_input(line).exc = ""
    /\ Command(line) \in verbs

\* book = load_data(), at the start of a run of main
Startup ==
    /\ pc \in {"start", "done", "crashed"}
    /\ data' = load_data(disk)
    /\ pc' = "running"
    /\ reply' = Msg("Welcome to the assistant bot!")
    /\ today' = NoDate
    /\ upcoming' = NotCalled
    /\ UNCHANGED disk

\* parse_input raises on a line without tokens
ReadEmpty(line) ==
    /\ pc = "running"
    /\ parse_input(line).exc # ""
    /\ Crash(parse_input(line).exc)

\* close / exit: break, then save_data(book)
CmdClose(line) ==
    /\ Reads(line, {W_close, W_exit})
    /\ disk' = save_data(data)
    /\ pc' = "done"
    /\ reply' = Msg("Good bye!")
    /\ today' = NoDate
    /\ upcoming' = NotCalled
    /\ UNCHANGED data

CmdHello(line) ==
    /\ Reads(line, {W_hello})
    /\ Say(Msg("How can I help you?"))

\* the mutant of CmdAdd: the record is put in the book before its phone is
\* validated
CmdAdd_InsertFirst(line) ==
    /\ Reads(line, {W_add})
    /\ IF Len(Args(line)) # 2 THEN Say(Msg("Invalid number of arguments."))
       ELSE LET record == Record(Args(line)[1])
                r == Record_add_phone(record.rec, Args(line)[2])
            IN  IF record.exc # "" THEN Crash(record.exc)
                ELSE /\ data' = add_record(data, r.rec)
                     /\ pc' = IF r.exc # "" THEN "crashed" ELSE pc
                     /\ reply' = IF r.exc # "" THEN Raised(r.exc)
                                 ELSE [Msg("Added new contact") EXCEPT
                                          !.entries = Args(line)]
                     /\ today' = NoDate
                     /\ upcoming' = NotCalled
                     /\ UNCHANGED disk

\* add <name> <phone>
CmdAdd(line) ==
    /\ Reads(line, {W_add})
    /\ IF Len(Args(line)) # 2 THEN Say(Msg("Invalid number of arguments."))
       ELSE LET record == Record(Args(line)[1])
                r == Record_add_phone(record.rec, Args(line)[2])
            IN  IF record.exc # "" THEN Crash(record.exc)
                ELSE IF r.exc # "" THEN Crash(r.exc)
                ELSE /\ data' = add_record(data, r.rec)
                     /\ reply' = [Msg("Added new contact") EXCEPT
                                     !.entries = Args(line)]
                     /\ today' = NoDate
                     /\ upcoming' = NotCalled
                     /\ UNCHANGED <<disk, pc>>

\* change <name> <newPhone>
CmdChange(line) ==
    /\ Reads(line, {W_change})
    /\ IF Len(Args(line)) # 2 THEN Say(Msg("Invalid number of arguments."))
       ELSE LET name == Args(line)[1]
                i == IndexOf(data, name)
            IN  IF i = 0
                THEN Say([Msg("Contact not found") EXCEPT !.entries = <<name>>])
                ELSE IF Len(data[i].phones) = 0 THEN Crash("IndexError")
                ELSE LET r == Record_edit_phone(data[i], data[i].phones[1],
                                                Args(line)[2])
                     IN  IF r.exc # "" THEN Crash(r.exc)
                         ELSE /\ data' = [data EXCEPT ![i] = r.rec]
                              /\ reply' = [Msg("Phone number changed") EXCEPT
                                              !.entries = <<name>>]
                              /\ today' = NoDate
                              /\ upcoming' = NotCalled
                              /\ UNCHANGED <<disk, pc>>

\* phone <name>
CmdPhone(line) ==
    /\ Reads(line, {W_phone})
    /\ IF Len(Args(line)) # 1 THEN Say(Msg("Invalid number of arguments."))
       ELSE LET name == Args(line)[1]
                i == IndexOf(data, name)
            IN  IF i = 0
                THEN Say([Msg("Contact not found") EXCEPT !.entries = <<name>>])
                ELSE IF Len(data[i].phones) = 0 THEN Crash("IndexError")
                ELSE Say([Msg("Phone number") EXCEPT
                             !.entries = <<name, data[i].phones[1]>>])

\* all
CmdAll(line) ==
    /\ Reads(line, {W_all})
    /\ Say([Msg("All contacts:") EXCEPT
               !.entries = [i \in DOMAIN data |-> data[i].name]])

\* add-birthday <name> <DD.MM.YYYY>
CmdAddBirthday(line) ==
    /\ Reads(line, {W_add_birthday})
    /\ IF Len(Args(line)) # 2 THEN Say(Msg("Invalid number of arguments."))
       ELSE /\ data' = add_birthday(Args(line), data).book
            /\ reply' = add_birthday(Args(line), data).reply
            /\ today' = NoDate
            /\ upcoming' = NotCalled
            /\ UNCHANGED <<disk, pc>>

\* show-birthday <name>
CmdShowBirthday(line) ==
    /\ Reads(line, {W_show_birthday})
    /\ IF Len(Args(line)) # 1 THEN Say(Msg("Invalid number of arguments."))
       ELSE Say(show_birthday(Args(line), data))

\* birthdays: t is the date datetime.today() gives
CmdBirthdays(line, t) ==
    /\ Reads(line, {W_birthdays})
    /\ today' = t
    /\ upcoming' = get_upcoming_birthdays(data, t)
    /\ reply' = birthdays(get_upcoming_birthdays(data, t))
    /\ UNCHANGED <<data, disk, pc>>

\* any other verb
CmdInvalid(line) ==
    /\ Reads(line, {Command(line)}
                   \ {W_close, W_exit, W_hello, W_add, W_change, W_phone, W_all,
                      W_add_birthday, W_show_birthday, W_birthdays})
    /\ Say(Msg("Invalid command."))


(***************************************************************************)
(* Inputs                                                                 *)
(***************************************************************************)
Anna == <<"A", "n", "n", "a">>
Bob == <<"B", "o", "b">>
Cara == <<"C", "a", "r", "a">>
P1 == <<"1", "2", "3", "4", "5", "6", "7", "8", "9", "0">>
P2 == <<"0", "9", "8", "7", "6", "5", "4", "3", "2", "1">>
P3 == <<"5", "5", "5", "5", "5", "5", "5", "5", "5", "5">>
Bad5 == <<"1", "2", "3", "4", "5">>
BadAlpha == <<"1", "2", "3", "4", "5", "a", "b", "c", "d", "e">>
Bad11 == <<"1", "2", "3", "4", "5", "6", "7", "8", "9", "0", "1">>
PSup == <<Sup2, Sup2, Sup2, Sup2, Sup2, Sup2, Sup2, Sup2, Sup2, Sup2>>
B_10_06 == <<"1", "0", ".", "0", "6", ".", "1", "9", "9", "0">>
B_15_06 == <<"1", "5", ".", "0", "6", ".", "1", "9", "9", "0">>
B_16_06 == <<"1", "6", ".", "0", "6", ".", "1", "9", "8", "5">>
B_17_06 == <<"1", "7", ".", "0", "6", ".", "2", "0", "0", "0">>
B_01_06 == <<"0", "1", ".", "0", "6", ".", "1", "9", "9", "0">>
B_20_06 == <<"2", "0", ".", "0", "6", ".", "1", "9", "9", "0">>
B_30_06 == <<"3", "0", ".", "0", "6", ".", "1", "9", "9", "0">>
B_30_11 == <<"3", "0", ".", "1", "1", ".", "1", "9", "9", "0">>
B_30_12 == <<"3", "0", ".", "1", "2", ".", "1", "9", "9", "0">>
B_31_12 == <<"3", "1", ".", "1", "2", ".", "1", "9", "9", "0">>
B_27_12 == <<"2", "7", ".", "1", "2", ".", "1", "9", "9", "0">>
B_29_02 == <<"2", "9", ".", "0", "2", ".", "2", "0", "0", "0">>
B_31_02 == <<"3", "1", ".", "0", "2", ".", "1", "9", "9", "0">>
B_dash == <<"1", "5", "-", "0", "6", "-", "1", "9", "9", "0">>
W_ADD == <<"A", "D", "D">>
W_Exit == <<"E", "x", "i", "t">>
W_foo == <<"f", "o", "o">>

\* the lines typed at the prompt, each already split at white space
Lines ==
    { <<>>,
      <<W_hello>>, <<W_close>>, <<W_Exit>>, <<W_foo>>, <<W_all>>, <<W_birthdays>>,
      <<W_add, Anna, P1>>, <<W_ADD, Anna, P2>>, <<W_add, Bob, P1>>,
      <<W_add, Anna, Bad5>>, <<W_add, Anna>>,
      <<W_change, Anna, P2>>, <<W_change, Anna, BadAlpha>>, <<W_change, Bob, P1>>,
      <<W_change, Anna>>,
      <<W_phone, Anna>>, <<W_phone, Bob>>, <<W_phone>>,
      <<W_add_birthday, Anna, B_15_06>>, <<W_add_birthday, Anna, B_29_02>>,
      <<W_add_birthday, Bob, B_16_06>>, <<W_add_birthday, Anna, B_31_02>>,
      <<W_add_birthday, Anna, B_dash>>, <<W_add_birthday, Anna>>,
      <<W_show_birthday, Anna>>, <<W_show_birthday, Bob>>, <<W_show_birthday>> }

\* the dates datetime.today() gives: Monday 10 June 2024, Saturday 15 June
\* 2024, Monday 24 June 2024, Monday 25 November 2024, Monday 25 December
\* 2023, Monday 27 February 2023 and Monday 26 February 2024
Todays ==
    { MkDate(2024, 6, 10), MkDate(2024, 6, 15), MkDate(2024, 6, 24),
      MkDate(2024, 11, 25), MkDate(2023, 12, 25), MkDate(2023, 2, 27),
      MkDate(2024, 2, 26) }

\* the birthdays given to add-birthday in the scheduler's stores
BirthdayInputs ==
    { B_10_06, B_15_06, B_16_06, B_17_06, B_01_06, B_20_06, B_30_06, B_30_11,
      B_30_12, B_31_12, B_27_12, B_29_02 }

NameInputs == {Anna, Bob, Cara}

PhoneInputs == {P1, P2, P3, Bad5, BadAlpha, Bad11, PSup, <<>>}

\* the largest number of records in a store of the scheduler's runs
MaxRecords == 2

\* the largest number of phones a record is given
MaxPhones == 3

(***************************************************************************)
(* Specification of main: runs of the command loop, one after another     *)
(***************************************************************************)
Init ==
    /\ data = <<>>
    /\ disk = None
    /\ pc = "start"
    /\ reply = Msg("")
    /\ today = NoDate
    /\ upcoming = NotCalled

Next ==
    \/ Startup
    \/ \E line \in Lines :
        \/ ReadEmpty(line)
        \/ CmdClose(line)
        \/ CmdHello(line)
        \/ CmdAdd(line)
        \/ CmdChange(line)
        \/ CmdPhone(line)
        \/ CmdAll(line)
        \/ CmdAddBirthday(line)
        \/ CmdShowBirthday(line)
        \/ CmdInvalid(line)
        \/ \E t \in Todays : CmdBirthdays(line, t)

Spec == Init /\ [][Next]_vars

(***************************************************************************)
(* Specification of the scheduler: get_upcoming_birthdays and the         *)
(* birthdays command on every store of at most MaxRecords records         *)
(***************************************************************************)
\* the record `add name P1` makes, after `add-birthday name b` when b is
\* given (b is None or Some(a birthday input))
Contact(name, b) ==
    LET r == Record_add_phone(Record(name).rec, P1).rec
    IN  IF b = None THEN r ELSE Record_add_birthday(r, b[1]).rec

RECURSIVE Store(_, _)
\* the book after adding the contacts of names, in that order
Store(names, b) ==
    IF Len(names) = 0 THEN <<>>
    ELSE add_record(Store(SubSeq(names, 1, Len(names) - 1), b),
                    Contact(names[Len(names)], b[Len(names)]))

InitSched ==
    /\ \E n \in 0..MaxRecords :
         \E names \in [1..n -> NameInputs] :
           \E b \in [1..n -> {None} \cup {Some(x) : x \in BirthdayInputs}] :
             /\ \A i, j \in 1..n : i # j => names[i] # names[j]
             /\ data = Store(names, b)
    /\ disk = None
    /\ pc = "running"
    /\ reply = Msg("")
    /\ today = NoDate
    /\ upcoming = NotCalled

NextSched == \E t \in Todays : CmdBirthdays(<<W_birthdays>>, t)

SpecSched == InitSched /\ [][NextSched]_vars

(***************************************************************************)
(* Specification of Record: add_phone, edit_phone and remove_phone on one *)
(* record                                                                 *)
(***************************************************************************)
Did(op, exc, args) == [kind |-> op, exc |-> exc, entries |-> args]

RecAddPhone(phone) ==
    /\ pc = "record"
    /\ Len(data[1].phones) < MaxPhones
    /\ data' = [data EXCEPT ![1] = Record_add_phone(@, phone).rec]
    /\ reply' = Did("add_phone", Record_add_phone(data[1], phone).exc, <<phone>>)
    /\ UNCHANGED <<disk, pc, today, upcoming>>

RecEditPhone(old_phone, new_phone) ==
    /\ pc = "record"
    /\ data' = [data EXCEPT ![1] = Record_edit_phone(@, old_phone, new_phone).rec]
    /\ reply' = Did("edit_phone", Record_edit_phone(data[1], old_phone, new_phone).exc,
                    <<old_phone, new_phone>>)
    /\ UNCHANGED <<disk, pc, today, upcoming>>

RecRemovePhone(phone) ==
    /\ pc = "record"
    /\ data' = [data EXCEPT ![1] = Record_remove_phone(@, phone).rec]
    /\ reply' = Did("remove_phone", "", <<phone>>)
    /\ UNCHANGED <<disk, pc, today, upcoming>>

InitRecord ==
    /\ data = <<Record(Anna).rec>>
    /\ disk = None
    /\ pc = "record"
    /\ reply = Msg("")
    /\ today = NoDate
    /\ upcoming = NotCalled

NextRecord ==
    \/ \E phone \in PhoneInputs : RecAddPhone(phone)
    \/ \E old_phone, new_phone \in PhoneInputs : RecEditPhone(old_phone, new_phone)
    \/ \E phone \in PhoneInputs : RecRemovePhone(phone)

SpecRecord == InitRecord /\ [][NextRecord]_vars

(***************************************************************************)
(* Properties                                                             *)
(***************************************************************************)
\* the day after dt, by the calendar
NextDay(dt) ==
    IF dt.d < DaysInMonth(dt.y, dt.m) THEN MkDate(dt.y, dt.m, dt.d + 1)
    ELSE IF dt.m < 12 THEN MkDate(dt.y, dt.m + 1, 1)
    ELSE MkDate(dt.y + 1, 1, 1)

\* the Monday after a Saturday or Sunday, dt itself on any other day
NextWorkday(dt) ==
    IF weekday(dt) = 5 THEN NextDay(NextDay(dt))
    ELSE IF weekday(dt) = 6 THEN NextDay(dt)
    ELSE dt

\* get_upcoming_birthdays was called by the step that led here
Called == upcoming.exc # "not called"

HasBirthday(u) == u.birthday # None

\* the birthday's month and day exist in today's year
HasCandidate(u) ==
    HasBirthday(u) /\ DateOk(today.y, u.birthday[1].m, u.birthday[1].d)

CandidateOf(u) == MkDate(today.y, u.birthday[1].m, u.birthday[1].d)

\* 0 <= (candidate - today).days < 7
Qualifies(u) ==
    /\ HasCandidate(u)
    /\ Ord(CandidateOf(u)) - Ord(today) >= 0
    /\ Ord(CandidateOf(u)) - Ord(today) < 7

\* the entries returned for the contact called name
EntriesOf(name) ==
    IF upcoming.exc # "" THEN {}
    ELSE {k \in DOMAIN upcoming.val : upcoming.val[k].name = name}

\* every birthday of the store has a candidate date in today's year
AllCandidatesExist == \A i \in DOMAIN data : HasBirthday(data[i]) => HasCandidate(data[i])

\* a weekend candidate whose Monday lies in the next month
AtMonthEnd(c) == weekday(c) \in {5, 6} /\ NextWorkday(c).m # c.m

\* C1: when no birthday of the store is a 29 February missing from today's
\* year, get_upcoming_birthdays returns an entry for a record if and only if
\* the record has a birthday whose candidate date is 0 to 6 days after today
C1_EntryIffInWindow ==
    (Called /\ AllCandidatesExist) =>
        \A i \in DOMAIN data :
            (EntriesOf(data[i].name) # {}) <=> Qualifies(data[i])

\* C2: every entry emitted carries the candidate date of its record, moved
\* two days on for a Saturday and one day on for a Sunday, so no emitted
\* date is a Saturday or a Sunday
C2_WeekendRollForward ==
    (Called /\ upcoming.exc = "") =>
        \A k \in DOMAIN upcoming.val :
            LET e == upcoming.val[k]
                i == IndexOf(data, e.name)
            IN  /\ i # 0
                /\ Qualifies(data[i])
                /\ e.congratulation_date = strftime(NextWorkday(CandidateOf(data[i])))
                /\ strptime(e.congratulation_date).exc = ""
                /\ weekday(strptime(e.congratulation_date).val) \notin {5, 6}

\* C2 witness: a call returned a Saturday's and a Sunday's candidate, both
\* moved to the Monday
C2_Witness ==
    /\ Called
    /\ upcoming.exc = ""
    /\ \E j, k \in DOMAIN upcoming.val :
         LET cj == CandidateOf(data[IndexOf(data, upcoming.val[j].name)])
             ck == CandidateOf(data[IndexOf(data, upcoming.val[k].name)])
         IN  /\ weekday(cj) = 5
             /\ weekday(ck) = 6
             /\ upcoming.val[j].congratulation_date = strftime(NextDay(NextDay(cj)))
             /\ upcoming.val[k].congratulation_date = strftime(NextDay(ck))

\* C3: a qualifying weekend candidate at the end of a month (or year) still
\* gets an entry, dated the following Monday in the next month
C3_RollOverMonthEnd ==
    (Called /\ AllCandidatesExist) =>
        \A i \in DOMAIN data :
            (Qualifies(data[i]) /\ AtMonthEnd(CandidateOf(data[i]))) =>
                \E k \in EntriesOf(data[i].name) :
                    upcoming.val[k].congratulation_date
                        = strftime(NextWorkday(CandidateOf(data[i])))

\* C4: no error raised by a command ends main: the loop is left only by
\* close or exit
C4_LoopNeverCrashes == pc # "crashed"

\* the contacts of the book that have a birthday
WithBirthday(book) ==
    {book[i].name : i \in {j \in DOMAIN book : HasBirthday(book[j])}}

\* C5: within a run of main, a name that has a birthday keeps having one
\* after every command
C5_BirthdayNeverRemoved ==
    [][(pc = "running" /\ pc' = "running")
          => WithBirthday(data) \subseteq WithBirthday(data')]_vars

\* ten decimal digits: what the pattern ^\d{10}$ matches
TenDigits(s) == Len(s) = 10 /\ \A i \in 1..Len(s) : s[i] \in DigitSet

\* C6: after any sequence of add_phone, edit_phone and remove_phone calls,
\* every phone stored in a record is a string of exactly ten digits
C6_PhonesAreTenDigits ==
    \A i \in DOMAIN data :
        \A j \in DOMAIN data[i].phones : TenDigits(data[i].phones[j])

\* C7: the reply of the birthdays command names every entry that
\* get_upcoming_birthdays returned, in order
C7_ReplyNamesAllEntries ==
    (Called /\ upcoming.exc = "" /\ Len(upcoming.val) >= 1) =>
        reply.entries = upcoming.val

\* a record of the store has its birthday on 29 February
HasFeb29 ==
    \E i \in DOMAIN data :
        HasBirthday(data[i]) /\ data[i].birthday[1].m = 2 /\ data[i].birthday[1].d = 29

\* C8: with a 29 February birthday in the store and a today whose year is
\* not a leap year, get_upcoming_birthdays raises ValueError and returns no
\* entry at all
C8_Feb29Fails ==
    (Called /\ HasFeb29 /\ ~IsLeap(today.y)) =>
        (upcoming.exc = "ValueError" /\ upcoming.val = <<>>)

\* C8 witness: the call failed on a 29 February record that comes after a
\* record whose birthday is inside the window
C8_Witness ==
    /\ Called
    /\ ~IsLeap(today.y)
    /\ upcoming.exc = "ValueError"
    /\ Len(data) >= 2
    /\ Qualifies(data[1])
    /\ weekday(CandidateOf(data[1])) \notin {5, 6}
    /\ \E i \in 2..Len(data) :
         HasBirthday(data[i]) /\ data[i].birthday[1].m = 2 /\ data[i].birthday[1].d = 29

\* C9: the store load_data returns at the next start is the store main held
\* when close or exit ended it, and with no file load_data returns an empty
\* store
C9_RoundTrip ==
    [][/\ (pc = "done" /\ pc' = "running") => data' = data
       /\ (disk = None /\ pc # "running" /\ pc' = "running") => data' = <<>>]_vars

\* C9 witness: main started again on a saved store holding two contacts,
\* one of them with a birthday
C9_Witness ==
    /\ pc = "running"
    /\ reply.kind = "Welcome to the assistant bot!"
    /\ disk # None
    /\ Len(data) = 2
    /\ \E i \in DOMAIN data : HasBirthday(data[i])

\* C10: every record of the book has at least one phone, and no command
\* fails on record.phones[0]
C10_EveryRecordHasAPhone ==
    /\ \A i \in DOMAIN data : Len(data[i].phones) >= 1
    /\ reply.exc # "IndexError"

\* C10 witness: change replaced phones[0] of a record in a book of two
C10_Witness ==
    /\ reply.kind = "Phone number changed"
    /\ Len(data) = 2
    /\ \A i \in DOMAIN data : Len(data[i].phones) = 1

====
